---- MODULE Spec2Model ----
(***************************************************************************)
(* A model of aliasctl's alias store, syntax codec and managed-block       *)
(* merger (pkg/aliasctl) and of the cobra commands that drive them.        *)
(*                                                                         *)
(* Text is modelled as TLA+ strings: Len, \o and SubSeq act on them        *)
(* byte-wise, so the marker search and the splits below are the ones the   *)
(* Go code performs with package strings.                                  *)
(***************************************************************************)
EXTENDS Integers, Sequences, FiniteSets, TLC

VARIABLES
    Shell,      \* am.Shell
    Aliases,    \* am.Aliases: alias name -> AliasCommands
    aliasFile,  \* the file at am.AliasFile: [exists, content]
    storeFile,  \* the file at am.AliasStore: [kind, aliases]
    configFile, \* the file at am.ConfigFile: [exists, shell, AIProvider, Settings]
    lastOp,     \* the operation that produced this state: [op, args]
    ret,        \* what that operation returned (error text, "" for nil; "true"/"false" for a bool)
    exitCode,   \* exit status of the last command run through main, -1 when none
    steps,      \* operations performed so far
    codec,      \* the codec round trip under test: [phase, shell, name, command, text, out]
    AIConfigured,  \* am.AIConfigured
    aiManager,     \* am.aiManager: [Providers, Default], NoProvider for nil
    providerCalls, \* requests the running process has sent to an AI provider
    providerErrors, \* those of them that came back with an error
    converted,     \* the text the last ConvertAlias returned
    outputFile     \* the file ExportAliases is asked to write: [exists, content]

vars == <<Shell, Aliases, aliasFile, storeFile, configFile, lastOp, ret, exitCode, steps, codec,
          AIConfigured, aiManager, providerCalls, providerErrors, converted, outputFile>>

\* the AI side of the manager and the export file, left alone by the
\* operations that neither call a provider nor export
aiVars == <<AIConfigured, aiManager, providerCalls, providerErrors, converted, outputFile>>

(***************************************************************************)
(* Bounds                                                                  *)
(***************************************************************************)
MaxOps == 4

\* an operation and the arguments it was called with
Op(name, arguments) == [op |-> name, args |-> arguments]

(***************************************************************************)
(* package strings / bufio, as used by the code                            *)
(***************************************************************************)
HasPrefix(s, p) == Len(s) >= Len(p) /\ SubSeq(s, 1, Len(p)) = p

HasSuffix(s, p) == Len(s) >= Len(p) /\ SubSeq(s, Len(s) - Len(p) + 1, Len(s)) = p

Occurrences(s, sub) == {i \in 1..(Len(s) - Len(sub) + 1) : SubSeq(s, i, i + Len(sub) - 1) = sub}

\* 1-based position of the first occurrence of sub in s, 0 when there is none
Index(s, sub) ==
    LET occ == Occurrences(s, sub)
    IN  IF occ = {} THEN 0 ELSE CHOOSE i \in occ : \A j \in occ : i <= j

Contains(s, sub) == Index(s, sub) # 0

\* strings.SplitN(s, sep, 2)
SplitN2(s, sep) ==
    LET i == Index(s, sep)
    IN  IF i = 0 THEN <<s>>
        ELSE <<SubSeq(s, 1, i - 1), SubSeq(s, i + Len(sep), Len(s))>>

TrimPrefix(s, p) == IF HasPrefix(s, p) THEN SubSeq(s, Len(p) + 1, Len(s)) ELSE s

TrimSuffix(s, p) == IF HasSuffix(s, p) THEN SubSeq(s, 1, Len(s) - Len(p)) ELSE s

SpaceChars == {" ", "\t", "\n", "\r"}

RECURSIVE TrimLeft(_, _)
TrimLeft(s, cutset) ==
    IF Len(s) > 0 /\ SubSeq(s, 1, 1) \in cutset
    THEN TrimLeft(SubSeq(s, 2, Len(s)), cutset)
    ELSE s

RECURSIVE TrimRight(_, _)
TrimRight(s, cutset) ==
    IF Len(s) > 0 /\ SubSeq(s, Len(s), Len(s)) \in cutset
    THEN TrimRight(SubSeq(s, 1, Len(s) - 1), cutset)
    ELSE s

\* strings.Trim(s, cutset)
Trim(s, cutset) == TrimRight(TrimLeft(s, cutset), cutset)

TrimSpace(s) == Trim(s, SpaceChars)

\* strings.Fields(s): the maximal runs of non-space characters
RECURSIVE Fields(_)
Fields(s) ==
    LET t == TrimLeft(s, SpaceChars)
        ends == {i \in 1..Len(t) : SubSeq(t, i, i) \in SpaceChars}
        stop == IF ends = {} THEN Len(t) + 1 ELSE CHOOSE i \in ends : \A j \in ends : i <= j
    IN  IF t = "" THEN << >>
        ELSE <<SubSeq(t, 1, stop - 1)>> \o Fields(SubSeq(t, stop, Len(t)))

\* bufio.Scanner with ScanLines: the lines of text, without their "\n" and
\* without one trailing "\r"; a final unterminated line counts when non-empty
RECURSIVE ScanLines(_)
ScanLines(text) ==
    LET i == Index(text, "\n")
    IN  IF text = "" THEN << >>
        ELSE IF i = 0 THEN <<TrimSuffix(text, "\r")>>
        ELSE <<TrimSuffix(SubSeq(text, 1, i - 1), "\r")>> \o ScanLines(SubSeq(text, i + 1, Len(text)))

(***************************************************************************)
(* Dialects and records                                                    *)
(***************************************************************************)
ShellBash == "bash"
ShellZsh == "zsh"
ShellFish == "fish"
ShellKsh == "ksh"
ShellPowerShell == "powershell"
ShellPowerShellCore == "pwsh"
ShellCmd == "cmd"

Shells == {ShellBash, ShellZsh, ShellFish, ShellKsh, ShellPowerShell, ShellPowerShellCore, ShellCmd}

\* the zero value of AliasCommands
ZeroCommands == [sh \in Shells |-> ""]

\* make(map[string]AliasCommands)
EmptyAliases == [n \in {} |-> ZeroCommands]

\* commands := am.Aliases[name]: the zero value for a missing key
Lookup(aliases, name) == IF name \in DOMAIN aliases THEN aliases[name] ELSE ZeroCommands

Store_KeepsExisting(aliases, name, commands) ==
    [n \in (DOMAIN aliases) \cup {name} |->
        IF n \in DOMAIN aliases THEN aliases[n] ELSE commands]

\* am.Aliases[name] = commands
Store(aliases, name, commands) ==
    [n \in (DOMAIN aliases) \cup {name} |-> IF n = name THEN commands ELSE aliases[n]]

\* the switch on am.Shell that reads one field of a record
CommandFor(commands, shell) == IF shell \in Shells THEN commands[shell] ELSE ""

StartMarker == "# Aliases managed by AliasCtl"
EndMarker == "# End of aliases managed by AliasCtl"

\* a provider object: its Go type and its settings; NoProvider is nil
NoProvider == [kind |-> "", model |-> "", key |-> ""]
OllamaProvider(model) == [kind |-> "ollama", model |-> model, key |-> ""]
OpenAIProvider(apiKey, model) == [kind |-> "openai", model |-> model, key |-> apiKey]
AnthropicProvider(apiKey, model) == [kind |-> "anthropic", model |-> model, key |-> apiKey]

\* ai.NewManager(): no provider, no default
NewManager == [Providers |-> [name \in {} |-> NoProvider], Default |-> NoProvider]

\* what SaveConfig writes: the shell, the default provider named after the
\* type of am.aiManager.Default, and the settings of the providers found
\* under "ollama", "openai" and "anthropic" with the type of that name
SavedConfig(shell, manager) ==
    [exists |-> TRUE,
     shell |-> shell,
     AIProvider |-> manager.Default.kind,
     Settings |-> [name \in {n \in DOMAIN manager.Providers : manager.Providers[n].kind = n}
                     |-> manager.Providers[name]]]

NoFile == [exists |-> FALSE, content |-> ""]
File(text) == [exists |-> TRUE, content |-> text]

\* every order in which range may visit the keys of a map
RECURSIVE Orders(_)
Orders(S) ==
    IF S = {} THEN {<< >>}
    ELSE UNION {{<<x>> \o o : o \in Orders(S \ {x})} : x \in S}

(***************************************************************************)
(* ApplyAliases (alias_operations.go)                                      *)
(***************************************************************************)
\* existingContent: "" unless the file exists and can be read
ExistingContent(file) == IF file.exists THEN file.content ELSE ""

\* existingAliasSection
ExistingAliasSection(file) == file.exists /\ Contains(file.content, StartMarker)

\* BlockHead with the newline written whether or not the file ends in one
BlockHead_AlwaysNewline(existingContent, existingAliasSection) ==
    IF ~existingAliasSection /\ existingContent # ""
    THEN existingContent \o "\n" \o "\n" \o StartMarker \o "\n"
    ELSE IF existingAliasSection
    THEN SplitN2(existingContent, StartMarker)[1] \o StartMarker \o "\n"
    ELSE StartMarker \o "\n"

\* what is written before the definitions
BlockHead(existingContent, existingAliasSection) ==
    IF ~existingAliasSection /\ existingContent # ""
    THEN existingContent
         \o (IF ~HasSuffix(existingContent, "\n") THEN "\n" ELSE "")
         \o "\n" \o StartMarker \o "\n"
    ELSE IF existingAliasSection
    THEN SplitN2(existingContent, StartMarker)[1] \o StartMarker \o "\n"
    ELSE StartMarker \o "\n"

\* the definition written for one alias of the active shell
RenderAlias(shell, name, command) ==
    IF shell \in {ShellPowerShell, ShellPowerShellCore}
    THEN IF Contains(command, " ")
         THEN "function " \o name \o " { " \o command \o " }\n"
         ELSE "Set-Alias " \o name \o " " \o command \o "\n"
    ELSE IF shell = ShellCmd
    THEN "doskey " \o name \o "=" \o command \o "\n"
    ELSE IF shell = ShellFish
    THEN IF Contains(command, " ")
         THEN "function " \o name \o "\n    " \o command \o "\nend\n"
         ELSE "alias " \o name \o " '" \o command \o "'\n"
    ELSE "alias " \o name \o "='" \o command \o "'\n"

RECURSIVE RenderAll_KeepsEmpty(_, _, _)
RenderAll_KeepsEmpty(order, aliases, shell) ==
    IF order = << >> THEN ""
    ELSE RenderAlias(shell, Head(order), CommandFor(aliases[Head(order)], shell))
         \o RenderAll_KeepsEmpty(Tail(order), aliases, shell)

\* the loop over am.Aliases, visiting the names in the given order
RECURSIVE RenderAll(_, _, _)
RenderAll(order, aliases, shell) ==
    IF order = << >> THEN ""
    ELSE LET name == Head(order)
             command == CommandFor(aliases[name], shell)
         IN  (IF command # "" THEN RenderAlias(shell, name, command) ELSE "")
             \o RenderAll(Tail(order), aliases, shell)

\* BlockTail that keeps what followed the start marker of an unterminated block
BlockTail_KeepsUnterminated(existingContent, existingAliasSection) ==
    EndMarker \o "\n"
    \o (IF existingAliasSection /\ Contains(existingContent, EndMarker)
        THEN SplitN2(existingContent, EndMarker)[2]
        ELSE IF existingAliasSection
        THEN SplitN2(existingContent, StartMarker)[2]
        ELSE "")

\* what is written after the definitions
BlockTail(existingContent, existingAliasSection) ==
    EndMarker \o "\n"
    \o (IF existingAliasSection /\ Contains(existingContent, EndMarker)
        THEN SplitN2(existingContent, EndMarker)[2]
        ELSE "")

\* newContent.String()
NewContent(file, aliases, shell, order) ==
    BlockHead(ExistingContent(file), ExistingAliasSection(file))
    \o RenderAll(order, aliases, shell)
    \o BlockTail(ExistingContent(file), ExistingAliasSection(file))

ApplyAliases ==
    /\ steps < MaxOps
    /\ \E order \in Orders(DOMAIN Aliases) :
          aliasFile' = File(NewContent(aliasFile, Aliases, Shell, order))
    /\ lastOp' = Op("apply", << >>)
    /\ ret' = ""
    /\ steps' = steps + 1
    /\ UNCHANGED <<Shell, Aliases, storeFile, configFile, exitCode, codec, aiVars>>

(***************************************************************************)
(* The alias store (AddAlias, RemoveAlias, ListAliases, SetShell,          *)
(* LoadAliases, SaveAliases)                                               *)
(***************************************************************************)
\* WithCommand with the two PowerShell cases sharing one body
WithCommand_PowerShellShared(commands, shell, command) ==
    IF shell \in {ShellPowerShell, ShellPowerShellCore}
    THEN [commands EXCEPT ![ShellPowerShell] = command, ![ShellPowerShellCore] = command]
    ELSE IF shell \in Shells THEN [commands EXCEPT ![shell] = command] ELSE commands

\* the switch on am.Shell that assigns one field of a record
WithCommand(commands, shell, command) ==
    IF shell \in Shells THEN [commands EXCEPT ![shell] = command] ELSE commands

\* AddAliasTo that leaves an existing record alone
AddAliasTo_OnlyNew(aliases, shell, name, command) ==
    IF name \in DOMAIN aliases THEN aliases
    ELSE Store(aliases, name, WithCommand(ZeroCommands, shell, command))

\* am.Aliases after AddAlias(name, command)
AddAliasTo(aliases, shell, name, command) ==
    Store(aliases, name, WithCommand(Lookup(aliases, name), shell, command))

AddAlias(name, command) ==
    /\ steps < MaxOps
    /\ Aliases' = AddAliasTo(Aliases, Shell, name, command)
    /\ lastOp' = Op("add", <<name, command>>)
    /\ ret' = ""
    /\ steps' = steps + 1
    /\ UNCHANGED <<Shell, aliasFile, storeFile, configFile, exitCode, codec, aiVars>>

\* RemoveAliasFrom that blanks the record instead of deleting the key
RemoveAliasFrom_Blank(aliases, name) ==
    [n \in DOMAIN aliases |-> IF n = name THEN ZeroCommands ELSE aliases[n]]

\* am.Aliases after RemoveAlias(name)
RemoveAliasFrom(aliases, name) == [n \in (DOMAIN aliases) \ {name} |-> aliases[n]]

\* what RemoveAlias(name) returns
RemoveReturns(aliases, name) == IF name \in DOMAIN aliases THEN "true" ELSE "false"

RemoveAlias(name) ==
    /\ steps < MaxOps
    /\ Aliases' = RemoveAliasFrom(Aliases, name)
    /\ lastOp' = Op("remove", <<name>>)
    /\ ret' = RemoveReturns(Aliases, name)
    /\ steps' = steps + 1
    /\ UNCHANGED <<Shell, aliasFile, storeFile, configFile, exitCode, codec, aiVars>>

\* the "name = command" lines ListAliases prints, as a set of pairs
ListAliases(aliases, shell) ==
    {<<name, CommandFor(aliases[name], shell)>> :
        name \in {n \in DOMAIN aliases : CommandFor(aliases[n], shell) # ""}}

UnsupportedShell_Bare(shell) == "unsupported shell: " \o shell

UnsupportedShell(shell) ==
    "unsupported shell: " \o shell \o " (supported shells: bash, zsh, fish, ksh, powershell, pwsh, cmd)"

SetShell(shell) ==
    /\ steps < MaxOps
    /\ IF shell \in Shells
       THEN /\ Shell' = shell
            /\ configFile' = SavedConfig(shell, aiManager)
            /\ ret' = ""
       ELSE /\ ret' = UnsupportedShell(shell)
            /\ UNCHANGED <<Shell, configFile>>
    /\ lastOp' = Op("set-shell", <<shell>>)
    /\ steps' = steps + 1
    /\ UNCHANGED <<Aliases, aliasFile, storeFile, exitCode, codec, aiVars>>

NoStore == [kind |-> "absent", aliases |-> EmptyAliases]
CorruptStore == [kind |-> "corrupt", aliases |-> EmptyAliases]
StoreOf(aliases) == [kind |-> "ok", aliases |-> aliases]

\* decoding a store file into the map am.Aliases already holds: every key of
\* the file gets the file's record, the other keys stay
Unmarshal(aliases, stored) ==
    [n \in (DOMAIN aliases) \cup (DOMAIN stored) |->
        IF n \in DOMAIN stored THEN stored[n] ELSE aliases[n]]

LoadedAliases_KeepsMap(aliases, store) ==
    IF store.kind \in {"absent", "corrupt"} THEN aliases
    ELSE Unmarshal(aliases, store.aliases)

\* am.Aliases after LoadAliases()
LoadedAliases(aliases, store) ==
    IF store.kind = "absent" THEN EmptyAliases
    ELSE IF store.kind = "corrupt" THEN aliases
    ELSE Unmarshal(aliases, store.aliases)

\* the error LoadAliases() returns, "" for nil
LoadError(store) == IF store.kind = "corrupt" THEN "invalid character" ELSE ""

LoadAliases ==
    /\ steps < MaxOps
    /\ Aliases' = LoadedAliases(Aliases, storeFile)
    /\ ret' = LoadError(storeFile)
    /\ lastOp' = Op("load", << >>)
    /\ steps' = steps + 1
    /\ UNCHANGED <<Shell, aliasFile, storeFile, configFile, exitCode, codec, aiVars>>

SavedStore_FreshMap(aliases) == StoreOf(EmptyAliases)

\* the store file after SaveAliases()
SavedStore(aliases) == StoreOf(aliases)

SaveAliases ==
    /\ steps < MaxOps
    /\ storeFile' = SavedStore(Aliases)
    /\ ret' = ""
    /\ lastOp' = Op("save", << >>)
    /\ steps' = steps + 1
    /\ UNCHANGED <<Shell, Aliases, aliasFile, configFile, exitCode, codec, aiVars>>

\* the calls of SaveAliases() the file system can refuse: os.MkdirAll,
\* opening the store (os.Create, and the os.WriteFile of the JSON fallback
\* after it), writing into the opened store (Encode, then os.WriteFile)
SaveFaults == {"mkdir", "open", "write"}

\* what a refused write leaves of a store that was opened, and so truncated:
\* an empty file, or a beginning of the data that cannot be parsed
TornStores == {StoreOf(EmptyAliases), CorruptStore}

\* the store file after a SaveAliases() that returns an error
StoreAfterFault(store, fault, torn) ==
    IF fault = "write" THEN torn ELSE store

\* SaveAliases() when the file system refuses one of its calls
SaveAliasesFails(fault, torn) ==
    /\ steps < MaxOps
    /\ storeFile' = StoreAfterFault(storeFile, fault, torn)
    /\ ret' = fault \o ": input/output error"
    /\ lastOp' = Op("save", <<fault>>)
    /\ steps' = steps + 1
    /\ UNCHANGED <<Shell, Aliases, aliasFile, configFile, exitCode, codec, aiVars>>

(***************************************************************************)
(* The AI manager and its providers (ai/manager.go, ai_bridge.go)          *)
(***************************************************************************)
\* what a request to a provider comes back with: an error, or a text
ProviderFailure == [err |-> "connection refused", text |-> ""]
Answer(text) == [err |-> "", text |-> text]

\* Manager.AddProvider
AddProvider(manager, name, provider) ==
    [Providers |-> [n \in DOMAIN manager.Providers \cup {name} |->
                      IF n = name THEN provider ELSE manager.Providers[n]],
     Default |-> IF manager.Default = NoProvider THEN provider ELSE manager.Default]

\* Manager.SetDefaultProvider
SetDefaultProvider(manager, name) ==
    IF name \in DOMAIN manager.Providers
    THEN [manager EXCEPT !.Default = manager.Providers[name]]
    ELSE manager

\* the error Manager.SetDefaultProvider returns, "" for nil
SetDefaultProviderError(manager, name) ==
    IF name \in DOMAIN manager.Providers THEN ""
    ELSE "provider '" \o name \o "' not configured"

\* am.aiManager after ConfigureOllama, ConfigureOpenAI or ConfigureAnthropic
ConfiguredWith(manager, provider) ==
    SetDefaultProvider(AddProvider(manager, provider.kind, provider), provider.kind)

\* the settings the runs that do not look at them configure a provider with
DefaultSettings(name) == [kind |-> name, model |-> "llama2", key |-> IF name = "ollama" THEN "" ELSE "sk-1"]

Configured(manager, name) == ConfiguredWith(manager, DefaultSettings(name))

\* Manager.GetProvider: the provider, NoProvider when it returns an error
GetProvider(manager, name) ==
    IF name = "" THEN manager.Default
    ELSE IF name \in DOMAIN manager.Providers THEN manager.Providers[name]
    ELSE NoProvider

\* the error Manager.GetProvider returns, "" for nil
GetProviderError(manager, name) ==
    IF name = ""
    THEN IF manager.Default = NoProvider THEN "no default AI provider configured" ELSE ""
    ELSE IF name \in DOMAIN manager.Providers THEN ""
    ELSE "AI provider '" \o name \o "' not configured"

\* Manager.ConvertAlias and Manager.GenerateAlias: the error of GetProvider,
\* else what the provider came back with
ManagerAnswer(manager, providerName, reply) ==
    IF GetProviderError(manager, providerName) # ""
    THEN [err |-> GetProviderError(manager, providerName), text |-> ""]
    ELSE reply

\* requests these two send to a provider
ManagerCalls(manager, providerName) ==
    IF GetProviderError(manager, providerName) # "" THEN 0 ELSE 1

\* ConfigureOllama, ConfigureOpenAI, ConfigureAnthropic: register the
\* provider, make it the default, save the configuration
ConfigureProvider(name) ==
    /\ steps < MaxOps
    /\ aiManager' = Configured(aiManager, name)
    /\ AIConfigured' = TRUE
    /\ configFile' = SavedConfig(Shell, aiManager')
    /\ lastOp' = Op("configure", <<name>>)
    /\ ret' = ""
    /\ steps' = steps + 1
    /\ UNCHANGED <<Shell, Aliases, aliasFile, storeFile, exitCode, codec,
                   providerCalls, providerErrors, converted, outputFile>>

ConfigureOllama == ConfigureProvider("ollama")

ConfigureOpenAI == ConfigureProvider("openai")

\* AliasManager.ConvertAlias: what it returns, [err, text]
ConvertAliasAnswer(configured, manager, aliases, shell, name, targetShell, providerName, reply) ==
    IF ~configured
    THEN [err |-> "AI provider not configured", text |-> ""]
    ELSE IF name \notin DOMAIN aliases
    THEN [err |-> "alias '" \o name \o "' not found. Run 'aliasctl list' to see available aliases",
          text |-> ""]
    ELSE IF CommandFor(aliases[name], shell) = ""
    THEN [err |-> "command for shell '" \o shell \o "' not found", text |-> ""]
    ELSE ManagerAnswer(manager, providerName, reply)

\* AliasManager.ConvertAlias: the requests it sends to a provider
ConvertAliasCalls(configured, manager, aliases, shell, name, providerName) ==
    IF configured /\ name \in DOMAIN aliases /\ CommandFor(Lookup(aliases, name), shell) # ""
    THEN ManagerCalls(manager, providerName)
    ELSE 0

ConvertAlias(name, targetShell, providerName, reply) ==
    /\ steps < MaxOps
    /\ LET answer == ConvertAliasAnswer(AIConfigured, aiManager, Aliases, Shell,
                                        name, targetShell, providerName, reply)
           calls == ConvertAliasCalls(AIConfigured, aiManager, Aliases, Shell, name, providerName)
       IN  /\ ret' = answer.err
           /\ converted' = answer.text
           /\ providerCalls' = providerCalls + calls
           /\ providerErrors' = providerErrors + (IF calls = 1 /\ reply.err # "" THEN 1 ELSE 0)
    /\ lastOp' = Op("convert", <<name, targetShell, providerName>>)
    /\ steps' = steps + 1
    /\ UNCHANGED <<Shell, Aliases, aliasFile, storeFile, configFile, exitCode, codec,
                   AIConfigured, aiManager, outputFile>>

\* the shells convertCmd takes as a target
SupportedShells == {"bash", "zsh", "fish", "ksh", "powershell", "pwsh", "cmd"}

\* convertCmd's report that the alias is not in the store
AliasNotFound(name) ==
    "alias '" \o name \o "' not found\n\nRun 'aliasctl list' to see available aliases"

\* convertCmd: the error it reports for the error am.ConvertAlias returned
ConvertReport(name, targetShell, err) ==
    IF err = "" THEN ""
    ELSE IF Contains(err, "not found") THEN AliasNotFound(name)
    ELSE IF Contains(err, "connection refused") \/ Contains(err, "no such host")
    THEN "failed to connect to AI provider: " \o err
    ELSE "failed to convert alias '" \o name \o "' to " \o targetShell \o " format: " \o err

\* convertCmd: the convert command of the command line
convertCmd(name, targetShell, providerName, reply) ==
    /\ steps < MaxOps
    /\ IF targetShell \notin SupportedShells
       THEN /\ ret' = "unsupported target shell '" \o targetShell \o "'"
            /\ UNCHANGED <<converted, providerCalls, providerErrors>>
       ELSE IF ~AIConfigured
       THEN /\ ret' = "AI provider not configured"
            /\ UNCHANGED <<converted, providerCalls, providerErrors>>
       ELSE LET answer == ConvertAliasAnswer(AIConfigured, aiManager, Aliases, Shell,
                                             name, targetShell, providerName, reply)
                calls == ConvertAliasCalls(AIConfigured, aiManager, Aliases, Shell,
                                           name, providerName)
            IN  /\ ret' = ConvertReport(name, targetShell, answer.err)
                /\ converted' = answer.text
                /\ providerCalls' = providerCalls + calls
                /\ providerErrors' = providerErrors + (IF calls = 1 /\ reply.err # "" THEN 1 ELSE 0)
    /\ exitCode' = IF ret' = "" THEN 0 ELSE 1
    /\ lastOp' = Op("convertCmd", <<name, targetShell, providerName>>)
    /\ steps' = steps + 1
    /\ UNCHANGED <<Shell, Aliases, aliasFile, storeFile, configFile, codec,
                   AIConfigured, aiManager, outputFile>>

(***************************************************************************)
(* ExportAliases (alias_operations.go)                                     *)
(***************************************************************************)
ExportHeader == "# Aliases exported by AliasCtl\n"
ExportFooter == "# End of exported aliases\n"

\* the definition written for one alias in the syntax of targetShell
ExportAlias(targetShell, name, command) ==
    IF targetShell \in {"powershell", "pwsh"}
    THEN IF Contains(command, " ")
         THEN "function " \o name \o " { " \o command \o " }\n"
         ELSE "Set-Alias " \o name \o " " \o command \o "\n"
    ELSE IF targetShell = "cmd"
    THEN "doskey " \o name \o "=" \o command \o "\n"
    ELSE IF targetShell = "fish"
    THEN IF Contains(command, " ")
         THEN "function " \o name \o "\n    " \o command \o "\nend\n"
         ELSE "alias " \o name \o " '" \o command \o "'\n"
    ELSE "alias " \o name \o "='" \o command \o "'\n"

\* the aliases ExportAliases asks ConvertAlias about
ExportConverts(configured, aliases, shell, targetShell) ==
    {name \in DOMAIN aliases :
        CommandFor(aliases[name], targetShell) # "" /\ configured /\ shell # targetShell}

\* the command written for one alias: the one stored for targetShell, or
\* what ConvertAlias returned when it returned no error
ExportCommand(configured, manager, aliases, shell, name, targetShell, reply) ==
    LET answer == ConvertAliasAnswer(configured, manager, aliases, shell, name, targetShell, "", reply)
    IN  IF name \in ExportConverts(configured, aliases, shell, targetShell) /\ answer.err = ""
        THEN answer.text
        ELSE CommandFor(aliases[name], targetShell)

\* the loop over am.Aliases, visiting the names in the given order
RECURSIVE ExportAll(_, _, _, _, _, _, _)
ExportAll(order, configured, manager, aliases, shell, targetShell, replies) ==
    IF order = << >> THEN ""
    ELSE LET name == Head(order)
         IN  (IF CommandFor(aliases[name], targetShell) # ""
              THEN ExportAlias(targetShell, name,
                               ExportCommand(configured, manager, aliases, shell,
                                             name, targetShell, replies[name]))
              ELSE "")
             \o ExportAll(Tail(order), configured, manager, aliases, shell, targetShell, replies)

ExportedFile_Appended(file, content) == File(file.content \o content)

\* the output file after os.WriteFile(outputFile, content)
ExportedFile(file, content) == File(content)

\* the requests one export sends, and those that come back with an error
ExportCalls(configured, manager, aliases, shell, targetShell) ==
    {name \in ExportConverts(configured, aliases, shell, targetShell) :
        ConvertAliasCalls(configured, manager, aliases, shell, name, "") = 1}

ExportAliases(targetShell, replies) ==
    /\ steps < MaxOps
    /\ \E order \in Orders(DOMAIN Aliases) :
          outputFile' = ExportedFile(outputFile,
                            ExportHeader
                            \o ExportAll(order, AIConfigured, aiManager, Aliases, Shell,
                                         targetShell, replies)
                            \o ExportFooter)
    /\ LET calls == ExportCalls(AIConfigured, aiManager, Aliases, Shell, targetShell)
       IN  /\ providerCalls' = providerCalls + Cardinality(calls)
           /\ providerErrors' = providerErrors
                                  + Cardinality({name \in calls : replies[name].err # ""})
    /\ ret' = ""
    /\ lastOp' = Op("export", <<targetShell>>)
    /\ steps' = steps + 1
    /\ UNCHANGED <<Shell, Aliases, aliasFile, storeFile, configFile, exitCode, codec,
                   AIConfigured, aiManager, converted>>

(***************************************************************************)
(* ImportAliasesFromShell (alias_operations.go)                            *)
(***************************************************************************)
\* case ShellPowerShell, ShellPowerShellCore
ImportPowerShellLine(line, aliases, shell) ==
    IF HasPrefix(line, "function ")
    THEN LET parts == SplitN2(SubSeq(line, 10, Len(line)), " ")
         IN  IF Len(parts) = 2 /\ Contains(parts[2], "{")
             THEN LET name == parts[1]
                      cmdParts == SplitN2(parts[2], "{")
                      command == TrimSuffix(TrimSpace(cmdParts[2]), "}")
                  IN  Store(aliases, name, WithCommand(Lookup(aliases, name), shell, TrimSpace(command)))
             ELSE aliases
    ELSE IF HasPrefix(line, "Set-Alias ")
    THEN LET parts == Fields(SubSeq(line, 11, Len(line)))
         IN  IF Len(parts) >= 2
             THEN Store(aliases, parts[1], WithCommand(Lookup(aliases, parts[1]), shell, parts[2]))
             ELSE aliases
    ELSE aliases

\* case ShellCmd
ImportCmdLine(line, aliases) ==
    IF HasPrefix(line, "doskey ")
    THEN LET parts == SplitN2(SubSeq(line, 8, Len(line)), "=")
         IN  IF Len(parts) = 2
             THEN Store(aliases, parts[1], WithCommand(Lookup(aliases, parts[1]), ShellCmd, parts[2]))
             ELSE aliases
    ELSE aliases

\* case ShellFish, a line "alias NAME 'COMMAND'"
ImportFishAlias(line, aliases) ==
    LET parts == SplitN2(TrimPrefix(line, "alias "), " ")
    IN  IF Len(parts) = 2
        THEN Store(aliases, parts[1],
                   WithCommand(Lookup(aliases, parts[1]), ShellFish, Trim(parts[2], {"'", "\""})))
        ELSE aliases

ImportFishFunction_StoresTerminator(line, body, aliases) ==
    LET parts == SplitN2(SubSeq(line, 10, Len(line)), " ")
        name == TrimSuffix(parts[1], ";")
    IN  Store(aliases, name, WithCommand(Lookup(aliases, name), ShellFish, TrimSpace(body)))

\* case ShellFish, a line "function NAME" and the line the scanner yields next
ImportFishFunction(line, body, aliases) ==
    LET parts == SplitN2(SubSeq(line, 10, Len(line)), " ")
        name == TrimSuffix(parts[1], ";")
        command == TrimSpace(body)
    IN  IF ~HasPrefix(command, "end")
        THEN Store(aliases, name, WithCommand(Lookup(aliases, name), ShellFish, command))
        ELSE aliases

ImportPosixLine_KeepsQuotes(line, aliases, shell) ==
    IF HasPrefix(line, "alias ")
    THEN LET parts == SplitN2(TrimPrefix(line, "alias "), "=")
         IN  IF Len(parts) = 2
             THEN Store(aliases, parts[1],
                        IF shell \in {ShellBash, ShellZsh, ShellFish, ShellKsh}
                        THEN WithCommand(Lookup(aliases, parts[1]), shell, parts[2])
                        ELSE Lookup(aliases, parts[1]))
             ELSE aliases
    ELSE aliases

\* default: a line "alias NAME='COMMAND'"
ImportPosixLine(line, aliases, shell) ==
    IF HasPrefix(line, "alias ")
    THEN LET parts == SplitN2(TrimPrefix(line, "alias "), "=")
         IN  IF Len(parts) = 2
             THEN Store(aliases, parts[1],
                        IF shell \in {ShellBash, ShellZsh, ShellFish, ShellKsh}
                        THEN WithCommand(Lookup(aliases, parts[1]), shell, Trim(parts[2], {"'", "\""}))
                        ELSE Lookup(aliases, parts[1]))
             ELSE aliases
    ELSE aliases

\* the scanner loop with the fish function branch scanning once more after
\* the body
RECURSIVE ImportLines_DropsLineAfterBody(_, _, _)
ImportLines_DropsLineAfterBody(lines, aliases, shell) ==
    IF lines = << >> THEN aliases
    ELSE LET line == Head(lines)
             rest == Tail(lines)
         IN  IF shell \in {ShellPowerShell, ShellPowerShellCore}
             THEN ImportLines_DropsLineAfterBody(rest, ImportPowerShellLine(line, aliases, shell), shell)
             ELSE IF shell = ShellCmd
             THEN ImportLines_DropsLineAfterBody(rest, ImportCmdLine(line, aliases), shell)
             ELSE IF shell = ShellFish
             THEN IF HasPrefix(line, "alias ")
                  THEN ImportLines_DropsLineAfterBody(rest, ImportFishAlias(line, aliases), shell)
                  ELSE IF HasPrefix(line, "function ")
                  THEN IF rest = << >> THEN aliases
                       ELSE ImportLines_DropsLineAfterBody(
                                IF Tail(rest) = << >> THEN << >> ELSE Tail(Tail(rest)),
                                ImportFishFunction(line, Head(rest), aliases), shell)
                  ELSE ImportLines_DropsLineAfterBody(rest, aliases, shell)
             ELSE ImportLines_DropsLineAfterBody(rest, ImportPosixLine(line, aliases, shell), shell)

\* the scanner loop: am.Aliases after the remaining lines have been read
RECURSIVE ImportLines(_, _, _)
ImportLines(lines, aliases, shell) ==
    IF lines = << >> THEN aliases
    ELSE LET line == Head(lines)
             rest == Tail(lines)
         IN  IF shell \in {ShellPowerShell, ShellPowerShellCore}
             THEN ImportLines(rest, ImportPowerShellLine(line, aliases, shell), shell)
             ELSE IF shell = ShellCmd
             THEN ImportLines(rest, ImportCmdLine(line, aliases), shell)
             ELSE IF shell = ShellFish
             THEN IF HasPrefix(line, "alias ")
                  THEN ImportLines(rest, ImportFishAlias(line, aliases), shell)
                  ELSE IF HasPrefix(line, "function ")
                  THEN IF rest = << >> THEN aliases
                       ELSE ImportLines(Tail(rest), ImportFishFunction(line, Head(rest), aliases), shell)
                  ELSE ImportLines(rest, aliases, shell)
             ELSE ImportLines(rest, ImportPosixLine(line, aliases, shell), shell)

\* an import that starts from an empty map
ImportedAliases_FreshMap(file, aliases, shell) ==
    IF ~file.exists THEN aliases
    ELSE ImportLines(ScanLines(file.content), EmptyAliases, shell)

\* am.Aliases after ImportAliasesFromShell()
ImportedAliases(file, aliases, shell) ==
    IF ~file.exists THEN aliases
    ELSE ImportLines(ScanLines(file.content), aliases, shell)

ImportAliasesFromShell ==
    /\ steps < MaxOps
    /\ Aliases' = ImportedAliases(aliasFile, Aliases, Shell)
    /\ storeFile' = IF aliasFile.exists THEN SavedStore(Aliases') ELSE storeFile
    /\ ret' = ""
    /\ lastOp' = Op("import", << >>)
    /\ steps' = steps + 1
    /\ UNCHANGED <<Shell, aliasFile, configFile, exitCode, codec, aiVars>>

(***************************************************************************)
(* Inputs                                                                  *)
(***************************************************************************)
Names == {"ll", "gs"}
Commands == {"ls -la", "ls"}

\* what codec holds while no round trip is under test
CodecIdle == [phase |-> "idle", shell |-> "", name |-> "", command |-> "", text |-> "", out |-> EmptyAliases]

\* alias files a user may have before the first apply: none, empty, plain
\* text with and without a final newline, a managed block between user
\* text, a block ending the file, an unterminated block, a stray end
\* marker, and an end marker ahead of the start marker
InitFiles == {
    NoFile,
    File(""),
    File("export A=1"),
    File("export A=1\n"),
    File("# user\n" \o StartMarker \o "\nalias old='x'\n" \o EndMarker \o "\n# tail\n"),
    File(StartMarker \o "\n" \o EndMarker),
    File("# user\n" \o StartMarker \o "\nalias old='x'\n# tail\n"),
    File("echo '" \o EndMarker \o "'\n"),
    File(EndMarker \o "\n" \o StartMarker \o "\n") }

(***************************************************************************)
(* SpecApply: the managed-block merger driven through the manager          *)
(***************************************************************************)
\* a shell other than the given one
ForeignShell(shell) == IF shell = ShellCmd THEN ShellBash ELSE ShellCmd

\* the stores an apply starts from: empty, one alias of the active shell,
\* and that alias next to one that has a command for another shell only
InitApply ==
    /\ Shell \in Shells
    /\ Aliases \in {EmptyAliases,
                    AddAliasTo(EmptyAliases, Shell, "ll", "ls -la"),
                    AddAliasTo(AddAliasTo(EmptyAliases, Shell, "ll", "ls -la"),
                               ForeignShell(Shell), "gs", "ls")}
    /\ aliasFile \in InitFiles
    /\ storeFile = NoStore
    /\ configFile = SavedConfig(Shell, NewManager)
    /\ lastOp = Op("init", << >>)
    /\ ret = ""
    /\ exitCode = -1
    /\ steps = 0
    /\ codec = CodecIdle
    /\ AIConfigured = FALSE
    /\ aiManager = NewManager
    /\ providerCalls = 0
    /\ providerErrors = 0
    /\ converted = ""
    /\ outputFile = NoFile

NextApply ==
    \/ ApplyAliases
    \/ \E name \in Names, command \in Commands : AddAlias(name, command)
    \/ \E name \in Names : RemoveAlias(name)

SpecApply == InitApply /\ [][NextApply]_vars

CountOf(s, sub) == Cardinality(Occurrences(s, sub))

\* the file holds one start marker and, after it, one end marker
HasOneBlock(file) ==
    /\ file.exists
    /\ CountOf(file.content, StartMarker) = 1
    /\ CountOf(file.content, EndMarker) = 1
    /\ Index(file.content, StartMarker) < Index(file.content, EndMarker)

\* the text ahead of the start marker
BeforeStart(text) == SubSeq(text, 1, Index(text, StartMarker) - 1)

\* the text that follows the line holding the end marker
AfterEndLine(text) ==
    LET rest == SubSeq(text, Index(text, EndMarker) + Len(EndMarker), Len(text))
        nl == Index(rest, "\n")
    IN  IF nl = 0 THEN "" ELSE SubSeq(rest, nl + 1, Len(rest))

\* the managed block for the names in the given order
ManagedBlock(order) ==
    StartMarker \o "\n" \o RenderAll(order, Aliases, Shell) \o EndMarker \o "\n"

\* C1: an apply directly after an apply leaves the alias file as the first
\* apply left it.
C1_IdempotentApply ==
    [][(lastOp.op = "apply" /\ lastOp'.op = "apply") => aliasFile' = aliasFile]_vars

\* C2: applying to a file with one managed block keeps the text ahead of the
\* start marker and the text after the end marker line byte-identical.
C2_BlockReplacement ==
    [][(lastOp'.op = "apply" /\ HasOneBlock(aliasFile))
         => /\ HasOneBlock(aliasFile')
            /\ BeforeStart(aliasFile'.content) = BeforeStart(aliasFile.content)
            /\ AfterEndLine(aliasFile'.content) = AfterEndLine(aliasFile.content)]_vars

\* the file holds the start marker and no end marker
Unterminated(file) ==
    /\ file.exists
    /\ Contains(file.content, StartMarker)
    /\ ~Contains(file.content, EndMarker)

PlainFile(file) == file.exists /\ file.content # "" /\ ~Contains(file.content, StartMarker)

\* the newline that completes a last line lacking one
ClosingNewline(text) == IF HasSuffix(text, "\n") THEN "" ELSE "\n"

\* C3 as stated: applying to a non-empty file without a start marker yields
\* the original bytes, a newline if the original lacked a final one, then the
\* managed block.
C3_AppendAsStated ==
    [][(lastOp'.op = "apply" /\ PlainFile(aliasFile))
         => \E order \in Orders(DOMAIN Aliases) :
               aliasFile'.content =
                   aliasFile.content \o ClosingNewline(aliasFile.content) \o ManagedBlock(order)]_vars

\* C3 amended: applying to a non-empty file without a start marker yields the
\* original bytes, a newline if the original lacked a final one, one empty
\* line, then the managed block at end of file.
C3_AppendWithBlankLine ==
    [][(lastOp'.op = "apply" /\ PlainFile(aliasFile))
         => \E order \in Orders(DOMAIN Aliases) :
               aliasFile'.content =
                   aliasFile.content \o ClosingNewline(aliasFile.content) \o "\n" \o ManagedBlock(order)]_vars

\* C3 witness: a file of plain text without a final newline has been applied to
\* with one alias in the store.
C3_Witness ==
    /\ lastOp.op = "apply"
    /\ steps = 1
    /\ DOMAIN Aliases = {"ll"}
    /\ HasPrefix(aliasFile.content, "export A=1\n\n" \o StartMarker)

\* C5: once apply has run, the file holds exactly one start marker followed by
\* exactly one end marker.
C5_OneManagedBlock == (lastOp.op = "apply") => HasOneBlock(aliasFile)

(***************************************************************************)
(* SpecStore: the alias store driven through the manager                   *)
(***************************************************************************)
StoreCommands == {"", "ls", "ls -la"}

\* what set-shell may be given: the seven shells and one that is not supported
ShellArgs == Shells \cup {"tcsh"}

\* alias files to import from: none, one definition, one definition of an
\* empty command
ImportFiles == {
    NoFile,
    File("alias ll='ls -la'\n"),
    File("alias gs=''\n") }

InitStore ==
    /\ Shell \in Shells
    /\ Aliases = EmptyAliases
    /\ aliasFile \in ImportFiles
    /\ storeFile = NoStore
    /\ configFile = SavedConfig(Shell, NewManager)
    /\ lastOp = Op("init", << >>)
    /\ ret = ""
    /\ exitCode = -1
    /\ steps = 0
    /\ codec = CodecIdle
    /\ AIConfigured = FALSE
    /\ aiManager = NewManager
    /\ providerCalls = 0
    /\ providerErrors = 0
    /\ converted = ""
    /\ outputFile = NoFile

NextStore ==
    \/ \E name \in Names, command \in StoreCommands : AddAlias(name, command)
    \/ \E name \in Names : RemoveAlias(name)
    \/ \E shell \in ShellArgs : SetShell(shell)
    \/ SaveAliases
    \/ LoadAliases
    \/ ImportAliasesFromShell

SpecStore == InitStore /\ [][NextStore]_vars

\* the names a listing shows
ListedNames(aliases, shell) == {pair[1] : pair \in ListAliases(aliases, shell)}

\* C6 as stated: after AddAlias(name, command) the record of name holds command
\* for the active shell, the listing for the active shell contains
\* (name, command), and the store file is as it was.
C6_AddAsStated ==
    [][(lastOp'.op = "add")
         => LET name == lastOp'.args[1]
                command == lastOp'.args[2]
            IN  /\ name \in DOMAIN Aliases'
                /\ Aliases'[name][Shell] = command
                /\ <<name, command>> \in ListAliases(Aliases', Shell)
                /\ storeFile' = storeFile]_vars

\* C6 amended: after AddAlias(name, command) the record of name holds command
\* for the active shell and the store file is as it was; the listing for the
\* active shell contains (name, command) when command is not empty.
C6_AddUpserts ==
    [][(lastOp'.op = "add")
         => LET name == lastOp'.args[1]
                command == lastOp'.args[2]
            IN  /\ name \in DOMAIN Aliases'
                /\ Aliases'[name][Shell] = command
                /\ (command # "" => <<name, command>> \in ListAliases(Aliases', Shell))
                /\ (command = "" => name \notin ListedNames(Aliases', Shell))
                /\ storeFile' = storeFile]_vars

\* C6 witness: "ll" was added a second time and now lists with the later
\* command.
C6_Witness ==
    /\ lastOp = Op("add", <<"ll", "ls">>)
    /\ steps >= 2
    /\ <<"ll", "ls">> \in ListAliases(Aliases, Shell)
    /\ storeFile = NoStore

\* C7: AddAlias under the active shell changes the command of that shell in
\* that one record and nothing else, so the listing of every other shell is
\* what it was; set-shell changes no record.
C7_DialectIsolation ==
    [][/\ (lastOp'.op = "add")
            => /\ \A n \in (DOMAIN Aliases) \cup (DOMAIN Aliases'), d \in Shells :
                     (n # lastOp'.args[1] \/ d # Shell)
                         => Lookup(Aliases', n)[d] = Lookup(Aliases, n)[d]
               /\ \A d \in Shells \ {Shell} :
                     ListAliases(Aliases', d) = ListAliases(Aliases, d)
       /\ (lastOp'.op = "set-shell") => Aliases' = Aliases]_vars

\* C7 witness: "ll" has a command for some shell, the active shell is another
\* one, and the listing of the active shell does not show "ll".
C7_Witness ==
    /\ lastOp.op = "set-shell"
    /\ "ll" \in DOMAIN Aliases
    /\ \E d \in Shells \ {Shell} : Aliases["ll"][d] # ""
    /\ "ll" \notin ListedNames(Aliases, Shell)

\* C8: RemoveAlias(name) returns true exactly when name had a record; after it
\* name has no record and shows in no listing; when name had no record the
\* store is as it was.
C8_RemoveWholeRecord ==
    [][(lastOp'.op = "remove")
         => LET name == lastOp'.args[1]
            IN  /\ (ret' = "true") <=> (name \in DOMAIN Aliases)
                /\ (ret' = "false") <=> (name \notin DOMAIN Aliases)
                /\ name \notin DOMAIN Aliases'
                /\ \A d \in Shells : name \notin ListedNames(Aliases', d)
                /\ (name \notin DOMAIN Aliases) => (Aliases' = Aliases)]_vars

\* C8 witness: a record that existed has been removed.
C8_Witness ==
    /\ lastOp = Op("remove", <<"ll">>)
    /\ ret = "true"
    /\ "ll" \notin DOMAIN Aliases

\* C9: the persisted store holds no record whose command is empty for every
\* shell.
C9_NoEmptyRecordPersisted ==
    \A n \in DOMAIN storeFile.aliases : \E d \in Shells : storeFile.aliases[n][d] # ""

\* the text between the line of the first start marker and the end marker
\* that follows it
BlockInterior(text) ==
    LET rest == SubSeq(text, Index(text, StartMarker) + Len(StartMarker), Len(text))
        body == SubSeq(rest, Index(rest, "\n") + 1, Len(rest))
    IN  SubSeq(body, 1, Index(body, EndMarker) - 1)

\* one definition for each name of the order, for the command its record
\* holds for the shell
RECURSIVE Definitions(_, _, _)
Definitions(order, aliases, shell) ==
    IF order = << >> THEN ""
    ELSE RenderAlias(shell, Head(order), CommandFor(aliases[Head(order)], shell))
         \o Definitions(Tail(order), aliases, shell)

\* C17: after ApplyAliases the text between the start marker line and the
\* end marker line is one rendered definition for each record whose command
\* for the active shell is not empty, each exactly once and nothing else;
\* when the alias file did not exist, the file written is this block alone.
C17_BlockHoldsDefinitions ==
    [][lastOp'.op = "apply" =>
         \E order \in Orders(ListedNames(Aliases', Shell')) :
            /\ Contains(aliasFile'.content, StartMarker \o "\n")
            /\ BlockInterior(aliasFile'.content) = Definitions(order, Aliases', Shell')
            /\ ~aliasFile.exists =>
                  aliasFile'.content = StartMarker \o "\n"
                                       \o Definitions(order, Aliases', Shell')
                                       \o EndMarker \o "\n"]_vars

\* an apply has written a block for a store in which one record has a
\* command for the active shell and another has none
C17_Witness ==
    /\ lastOp.op = "apply"
    /\ ListedNames(Aliases, Shell) # {}
    /\ ListedNames(Aliases, Shell) # DOMAIN Aliases
    /\ aliasFile.exists
    /\ BlockInterior(aliasFile.content) # ""

\* the seven names SetShell accepts
SupportedNames == {"bash", "zsh", "fish", "ksh", "powershell", "pwsh", "cmd"}

\* C15: SetShell with a name outside the seven returns an unsupported-shell
\* error that names the given string and the seven valid names, keeps the
\* active shell and writes no configuration; with one of the seven it makes
\* that shell the active one and saves the configuration with it.
C15_SetShellValidates ==
    [][lastOp'.op = "set-shell" =>
         LET shell == lastOp'.args[1]
         IN  IF shell \in SupportedNames
             THEN /\ ret' = ""
                  /\ Shell' = shell
                  /\ configFile'.exists
                  /\ configFile'.shell = shell
             ELSE /\ HasPrefix(ret', "unsupported shell")
                  /\ Contains(ret', shell)
                  /\ \A valid \in SupportedNames : Contains(ret', valid)
                  /\ Shell' = Shell
                  /\ configFile' = configFile]_vars

\* an unsupported name has been refused after the shell had been changed
C15_Witness ==
    /\ lastOp.op = "set-shell"
    /\ lastOp.args[1] \notin SupportedNames
    /\ ret # ""
    /\ Shell = configFile.shell
    /\ steps >= 2

\* C13: LoadAliases on a store path where no file exists returns no error,
\* leaves the manager with no alias at all, and creates no store file.
C13_MissingStoreLoadsEmpty ==
    [][(lastOp'.op = "load" /\ storeFile.kind = "absent")
         => /\ ret' = ""
            /\ DOMAIN Aliases' = {}
            /\ ListedNames(Aliases', Shell') = {}
            /\ storeFile' = storeFile]_vars

\* LoadAliases has run without a store file, as the third operation or later
C13_Witness ==
    /\ lastOp.op = "load"
    /\ storeFile.kind = "absent"
    /\ ret = ""
    /\ DOMAIN Aliases = {}
    /\ steps >= 3

(***************************************************************************)
(* SpecIo: the alias store on a file system that can refuse a call         *)
(***************************************************************************)
IoCommands == {"ls"}

NextIo ==
    \/ \E name \in Names, command \in IoCommands : AddAlias(name, command)
    \/ \E name \in Names : RemoveAlias(name)
    \/ SaveAliases
    \/ \E fault \in SaveFaults, torn \in TornStores : SaveAliasesFails(fault, torn)
    \/ LoadAliases

SpecIo == InitStore /\ [][NextIo]_vars

\* C11: a SaveAliases that returns an error leaves a store file that was
\* persisted before exactly as it was, neither truncated nor partly written.
C11_FailedSaveKeepsStore ==
    [][(lastOp'.op = "save" /\ ret' # "" /\ storeFile.kind = "ok")
         => storeFile' = storeFile]_vars

(***************************************************************************)
(* SpecAi: the manager with AI providers, converting and exporting         *)
(***************************************************************************)
AiShells == {ShellBash, ShellFish}
AiCommands == {"ls"}
ProviderFlags == {"", "openai"}

\* what a provider answers to a conversion request
ConvertReplies == {ProviderFailure, Answer("ls"), Answer("exa")}

\* what a provider answers to the convert command: no connection, a model
\* it does not have, a refused key, a conversion
ModelMissing ==
    [err |-> "ollama model 'llama2' not found: run 'ollama pull llama2' to download it first",
     text |-> ""]
KeyRefused ==
    [err |-> "API authentication error (status 401): invalid or missing API key", text |-> ""]
CommandReplies == {ProviderFailure, ModelMissing, KeyRefused, Answer("ls")}

\* the targets the convert command is given: two shells, one it does not know
ConvertTargets == AiShells \cup {"tcsh"}

\* files an export may be pointed at: none, one with a line of the user's
OutputFiles == {NoFile, File("export PATH=/bin\n")}

\* the stores the manager starts with: none, one alias that has a command
\* for both shells
AiStores == {
    EmptyAliases,
    AddAliasTo(AddAliasTo(EmptyAliases, ShellBash, "ll", "ls"), ShellFish, "ll", "ls") }

InitAi ==
    /\ Shell \in AiShells
    /\ Aliases \in AiStores
    /\ aliasFile = NoFile
    /\ storeFile = NoStore
    /\ configFile = SavedConfig(Shell, NewManager)
    /\ lastOp = Op("init", << >>)
    /\ ret = ""
    /\ exitCode = -1
    /\ steps = 0
    /\ codec = CodecIdle
    /\ AIConfigured = FALSE
    /\ aiManager = NewManager
    /\ providerCalls = 0
    /\ providerErrors = 0
    /\ converted = ""
    /\ outputFile \in OutputFiles

NextAi ==
    \/ ConfigureOllama
    \/ ConfigureOpenAI
    \/ \E name \in Names, command \in AiCommands : AddAlias(name, command)
    \/ \E shell \in AiShells : SetShell(shell)
    \/ \E name \in Names, targetShell \in AiShells, providerName \in ProviderFlags,
          reply \in ConvertReplies : ConvertAlias(name, targetShell, providerName, reply)
    \/ \E targetShell \in AiShells, replies \in [Names -> ConvertReplies] :
          ExportAliases(targetShell, replies)
    \/ \E name \in Names, targetShell \in ConvertTargets, providerName \in ProviderFlags,
          reply \in CommandReplies : convertCmd(name, targetShell, providerName, reply)

SpecAi == InitAi /\ [][NextAi]_vars

\* C24: with a provider configured and a target shell the command knows, the
\* convert command reports that the alias was not found exactly when the name
\* is absent from the store, and then no request went to a provider; an alias
\* without a command for the active shell and a failure of the provider are
\* reported as other errors.
C24_NotFoundOnlyWhenAbsent ==
    [][(/\ lastOp'.op = "convertCmd"
        /\ AIConfigured
        /\ lastOp'.args[2] \in SupportedShells)
         => /\ (ret' = AliasNotFound(lastOp'.args[1])) <=> (lastOp'.args[1] \notin DOMAIN Aliases)
            /\ (ret' = AliasNotFound(lastOp'.args[1])) => providerCalls' = providerCalls]_vars

\* C14: converting an alias to the shell that is active, with a provider
\* configured and a command stored for that shell, returns the stored command
\* without an error and sends no request to a provider.
C14_SameShellIsIdentity ==
    [][(/\ lastOp'.op = "convert"
        /\ lastOp'.args[2] = Shell
        /\ AIConfigured
        /\ GetProvider(aiManager, lastOp'.args[3]) # NoProvider
        /\ CommandFor(Lookup(Aliases, lastOp'.args[1]), Shell) # "")
         => /\ ret' = ""
            /\ converted' = CommandFor(Lookup(Aliases, lastOp'.args[1]), Shell)
            /\ providerCalls' = providerCalls]_vars

\* the text of an output file outside its export block, all of it when it
\* holds no block
OutsideExport(text) ==
    LET i == Index(text, ExportHeader)
        rest == IF i = 0 THEN "" ELSE SubSeq(text, i, Len(text))
        j == Index(rest, ExportFooter)
    IN  IF i = 0 \/ j = 0 THEN text
        ELSE SubSeq(text, 1, i - 1) \o SubSeq(rest, j + Len(ExportFooter), Len(rest))

\* C16 as stated: an export into a file that exists keeps, byte for byte,
\* the text that file held outside the block, as the managed-block merger
\* does.
C16_ExportAsStated ==
    [][(lastOp'.op = "export" /\ outputFile.exists)
         => HasPrefix(OutsideExport(outputFile'.content), OutsideExport(outputFile.content))]_vars

\* C16 amended: an export replaces the output file: afterwards the file is
\* one export block, from the header line to the footer line, and holds no
\* text outside it, whatever it held before.
C16_ExportOverwrites ==
    [][lastOp'.op = "export"
         => /\ outputFile'.exists
            /\ HasPrefix(outputFile'.content, ExportHeader)
            /\ HasSuffix(outputFile'.content, ExportFooter)
            /\ OutsideExport(outputFile'.content) = ""]_vars

\* an export of a store of two aliases has been written
C16_Witness ==
    /\ lastOp.op = "export"
    /\ outputFile.exists
    /\ Len(ScanLines(outputFile.content)) = 4
    /\ ~Contains(outputFile.content, "PATH")

\* C18: an export during which a request to the AI provider came back with
\* an error returns an error and leaves the output file as it was.
C18_FailedConversionStopsExport ==
    [][(lastOp'.op = "export" /\ providerErrors' > providerErrors)
         => /\ ret' # ""
            /\ outputFile' = outputFile]_vars

(***************************************************************************)
(* SpecImport: ImportAliasesFromShell over alias files of every dialect    *)
(***************************************************************************)
\* alias files: definitions at the start of a line and indented, a keyword
\* in another case, lines that define nothing, fish functions followed by
\* "end" and by a definition
ImportCases == {
    File("alias ll='ls -la'\n"),
    File("  alias ll='ls -la'\n"),
    File("Alias ll='ls -la'\n"),
    File("# alias\nexport A=1\n"),
    File("alias gs 'git status'\n"),
    File("\talias gs 'git status'\n"),
    File("function ll\n    ls -la\nend\n"),
    File("function ll\n    ls -la\nalias gs 'git status'\n"),
    File("function ll\nend\nalias gs 'git status'\n"),
    File("alias ll='ls'\n# block\nalias ll='ls -la'\n"),
    File("alias ll 'ls'\nalias gs 'git status'\nalias ll 'ls -la'\n"),
    File("Set-Alias ll ls\nfunction ll { ls -la }\n"),
    File("doskey ll=ls\ndoskey ll=ls -la\n"),
    File("Set-Alias ll ls\n"),
    File("  Set-Alias ll ls\n"),
    File("doskey ll=ls\n"),
    File(" doskey ll=ls\n") }

ImportCommands == {"ls"}

\* the stores an import starts from: none, and one where ll has a command
\* for another shell only and gs one for the active shell and one for another
ImportStores(shell) == {
    EmptyAliases,
    AddAliasTo(AddAliasTo(AddAliasTo(EmptyAliases, ForeignShell(shell), "ll", "exa"),
                          shell, "gs", "git st"),
               ForeignShell(shell), "gs", "gst") }

InitImport ==
    /\ Shell \in Shells
    /\ Aliases \in ImportStores(Shell)
    /\ aliasFile \in ImportCases
    /\ storeFile = NoStore
    /\ configFile = SavedConfig(Shell, NewManager)
    /\ lastOp = Op("init", << >>)
    /\ ret = ""
    /\ exitCode = -1
    /\ steps = 0
    /\ codec = CodecIdle
    /\ AIConfigured = FALSE
    /\ aiManager = NewManager
    /\ providerCalls = 0
    /\ providerErrors = 0
    /\ converted = ""
    /\ outputFile = NoFile

NextImport ==
    \/ ImportAliasesFromShell
    \/ \E name \in Names, command \in ImportCommands : AddAlias(name, command)
    \/ \E name \in Names : RemoveAlias(name)

SpecImport == InitImport /\ [][NextImport]_vars

\* the lines with their leading blanks and tabs removed
Unindented(lines) == [i \in 1..Len(lines) |-> TrimLeft(lines[i], {" ", "\t"})]

\* C19: an import reads a line as it reads the same line without its leading
\* whitespace: a definition that is indented is imported like one that
\* starts the line.
C19_IndentationIgnored ==
    [][(lastOp'.op = "import" /\ aliasFile.exists)
         => Aliases' = ImportLines(Unindented(ScanLines(aliasFile.content)), Aliases, Shell)]_vars

\* the lines without the line that follows the body of each fish function
RECURSIVE WithoutLineAfterBody(_)
WithoutLineAfterBody(lines) ==
    IF lines = << >> THEN << >>
    ELSE IF HasPrefix(Head(lines), "function ") /\ Len(lines) >= 3
    THEN <<lines[1], lines[2]>> \o WithoutLineAfterBody(SubSeq(lines, 4, Len(lines)))
    ELSE IF HasPrefix(Head(lines), "function ")
    THEN lines
    ELSE <<Head(lines)>> \o WithoutLineAfterBody(Tail(lines))

\* C20 as stated: a fish import takes the line after a "function " line as
\* the body and discards the line after the body: the result is that of the
\* file without those lines.
C20_LineAfterBodyDiscarded ==
    [][(lastOp'.op = "import" /\ Shell = ShellFish /\ aliasFile.exists)
         => Aliases' = ImportLines(WithoutLineAfterBody(ScanLines(aliasFile.content)),
                                   Aliases, Shell)]_vars

\* C20 amended: a fish import takes the line after a "function " line as
\* the body and reads on with the line after the body: the result for a
\* file that starts with a function is that of its first two lines,
\* followed by that of the lines from the third on.
C20_LineAfterBodyIsRead ==
    [][(/\ lastOp'.op = "import"
        /\ Shell = ShellFish
        /\ aliasFile.exists
        /\ HasPrefix(aliasFile.content, "function ")
        /\ Len(ScanLines(aliasFile.content)) >= 2)
         => LET lines == ScanLines(aliasFile.content)
                body == ImportFishFunction(lines[1], lines[2], Aliases)
            IN  /\ \/ HasPrefix(TrimSpace(lines[2]), "end")
                   \/ \E name \in DOMAIN body :
                         CommandFor(body[name], ShellFish) = TrimSpace(lines[2])
                /\ Aliases' = ImportedAliases(File(SubSeq(aliasFile.content,
                                                          Len(lines[1]) + Len(lines[2]) + 3,
                                                          Len(aliasFile.content))),
                                              body, Shell)]_vars

\* a fish import has read a function and the definition after its body
C20_Witness ==
    /\ lastOp.op = "import"
    /\ Shell = ShellFish
    /\ CommandFor(Lookup(Aliases, "ll"), ShellFish) = "ls -la"
    /\ CommandFor(Lookup(Aliases, "gs"), ShellFish) = "git status"

\* the name a fish "function NAME" line defines
FunctionName(line) == TrimSuffix(SplitN2(SubSeq(line, 10, Len(line)), " ")[1], ";")

\* C21: in a fish import, a "function NAME" line whose next line looks like
\* the "end" terminator is no error: the import returns nil, goes on with
\* the lines after these two, and the two lines give NAME no command.
C21_TerminatorBodyIsNoCommand ==
    [][(/\ lastOp'.op = "import"
        /\ Shell = ShellFish
        /\ aliasFile.exists
        /\ HasPrefix(aliasFile.content, "function ")
        /\ Len(ScanLines(aliasFile.content)) >= 2
        /\ HasPrefix(TrimSpace(ScanLines(aliasFile.content)[2]), "end"))
         => LET lines == ScanLines(aliasFile.content)
                rest == SubSeq(lines, 3, Len(lines))
                name == FunctionName(lines[1])
            IN  /\ ret' = ""
                /\ Aliases' = ImportLines(rest, Aliases, ShellFish)
                /\ name \notin DOMAIN ImportLines(rest, EmptyAliases, ShellFish)
                      => Lookup(Aliases', name) = Lookup(Aliases, name)]_vars

\* a fish import has passed a function whose body is "end" and has read the
\* definition after it
C21_Witness ==
    /\ lastOp.op = "import"
    /\ Shell = ShellFish
    /\ aliasFile.exists
    /\ HasPrefix(aliasFile.content, "function ll\nend\n")
    /\ CommandFor(Lookup(Aliases, "ll"), ShellFish) = ""
    /\ CommandFor(Lookup(Aliases, "gs"), ShellFish) = "git status"

\* what one line, read on its own, defines for the shell
LineDefines(line, shell) == ImportLines(<<line>>, EmptyAliases, shell)

\* the lines of a file that define the name, read one by one
DefiningLines(lines, name, shell) ==
    {i \in 1..Len(lines) : name \in DOMAIN LineDefines(lines[i], shell)}

DefinedInFile(file, shell) == DOMAIN ImportedAliases(file, EmptyAliases, shell)

\* C28: an import deletes no record, changes no record's command for a
\* dialect other than the active shell, and leaves the records the file does
\* not define as they were.
C28_ImportOnlyUpserts ==
    [][lastOp'.op = "import"
         => /\ DOMAIN Aliases \subseteq DOMAIN Aliases'
            /\ \A name \in DOMAIN Aliases :
                 /\ \A shell \in Shells \ {Shell} : Aliases'[name][shell] = Aliases[name][shell]
                 /\ name \notin DefinedInFile(aliasFile, Shell) => Aliases'[name] = Aliases[name]]_vars

\* an import has given ll, known for another shell only, a command for the
\* active shell next to the other one, and has left gs, which the file does
\* not define, with both of its commands
C28_Witness ==
    /\ lastOp.op = "import"
    /\ DefinedInFile(aliasFile, Shell) = {"ll"}
    /\ DOMAIN Aliases = {"ll", "gs"}
    /\ Aliases["ll"][Shell] # ""
    /\ Aliases["ll"][ForeignShell(Shell)] = "exa"
    /\ Aliases["gs"][Shell] = "git st"
    /\ Aliases["gs"][ForeignShell(Shell)] = "gst"

(***************************************************************************)
(* SpecCycle: ImportAliasesFromShell and ApplyAliases in turn              *)
(***************************************************************************)
\* commands of the stores a cycle starts from: plain ones, one that ends
\* with a quote, one that begins with "end"
CycleCommands == {"ls", "ls -la", "echo 'hi'", "endless -v"}

\* the stores a cycle starts from: none, one alias of the active shell, two
\* of them, one next to an alias of another shell
CycleStores(shell) ==
    {EmptyAliases}
    \cup {AddAliasTo(EmptyAliases, shell, "ll", command) : command \in CycleCommands}
    \cup {AddAliasTo(AddAliasTo(EmptyAliases, shell, "ll", "ls -la"), shell, "gs", "ls"),
          AddAliasTo(AddAliasTo(EmptyAliases, shell, "ll", "ls -la"),
                     ForeignShell(shell), "gs", "ls")}

\* alias files before the first apply: none, one line of the user's
CycleFiles == {NoFile, File("export A=1\n")}

InitCycle ==
    /\ Shell \in Shells
    /\ Aliases \in CycleStores(Shell)
    /\ aliasFile \in CycleFiles
    /\ storeFile = NoStore
    /\ configFile = SavedConfig(Shell, NewManager)
    /\ lastOp = Op("init", << >>)
    /\ ret = ""
    /\ exitCode = -1
    /\ steps = 0
    /\ codec = CodecIdle
    /\ AIConfigured = FALSE
    /\ aiManager = NewManager
    /\ providerCalls = 0
    /\ providerErrors = 0
    /\ converted = ""
    /\ outputFile = NoFile

NextCycle ==
    \/ ApplyAliases
    \/ ImportAliasesFromShell

SpecCycle == InitCycle /\ [][NextCycle]_vars

\* the lines of the managed block of a file
BlockLines(file) ==
    LET lines == ScanLines(BlockInterior(file.content))
    IN  {lines[i] : i \in 1..Len(lines)}

\* an import or an apply leaves the records, their commands for the active
\* shell and the definitions of the managed block as they were
CycleStepKeeps ==
    /\ DOMAIN Aliases' = DOMAIN Aliases
    /\ \A name \in DOMAIN Aliases :
          CommandFor(Lookup(Aliases', name), Shell) = CommandFor(Aliases[name], Shell)
    /\ (lastOp.op # "init" /\ lastOp'.op = "apply") => BlockLines(aliasFile') = BlockLines(aliasFile)

\* the alias file is one ApplyAliases has written for the store
Applied(file, aliases, shell) ==
    /\ file.exists
    /\ Contains(file.content, StartMarker \o "\n")
    /\ \E order \in Orders(ListedNames(aliases, shell)) :
          BlockInterior(file.content) = Definitions(order, aliases, shell)

QuoteFree(aliases, shell) ==
    \A name \in DOMAIN aliases :
       Trim(CommandFor(aliases[name], shell), {"'", "\""}) = CommandFor(aliases[name], shell)

RECURSIVE Split(_, _)
Split(s, sep) ==
    LET i == Index(s, sep)
    IN  IF i = 0 THEN <<s>>
        ELSE <<SubSeq(s, 1, i - 1)>> \o Split(SubSeq(s, i + Len(sep), Len(s)), sep)

\* the prefixes ExtractAliasDefinition looks for
DefinitionKeywords == {"alias ", "function ", "Set-Alias ", "doskey "}

StartsDefinition(line) == \E keyword \in DefinitionKeywords : HasPrefix(line, keyword)

\* the loop of ExtractAliasDefinition over the lines still to be read
RECURSIVE FirstDefinition(_, _)
FirstDefinition(lines, content) ==
    IF lines = << >> THEN content
    ELSE IF StartsDefinition(TrimSpace(Head(lines))) THEN TrimSpace(Head(lines))
    ELSE FirstDefinition(Tail(lines), content)

ExtractAliasDefinition_LastLine(content) ==
    LET lines == Split(TrimSpace(content), "\n")
        found == {i \in 1..Len(lines) : StartsDefinition(TrimSpace(lines[i]))}
    IN  IF found = {} THEN TrimSpace(content)
        ELSE TrimSpace(lines[CHOOSE i \in found : \A j \in found : j <= i])

\* ExtractAliasDefinition (and ParseAliasCommand, the same code)
ExtractAliasDefinition(content) ==
    FirstDefinition(Split(TrimSpace(content), "\n"), TrimSpace(content))

\* the lines a provider's response is made of
ResponseLines == {
    "", "aliases are fun", "alias ll='ls -la'", "  alias gs='git status'  ",
    "\tfunction ll", "Set-Alias ll ls\r", "doskey ll=ls" }

MaxResponseLines == 2

Responses == UNION {[1..n -> ResponseLines] : n \in 1..MaxResponseLines}

\* the text of a response: its lines, a "\n" between two of them
RECURSIVE JoinLines(_)
JoinLines(lines) ==
    IF Len(lines) = 1 THEN lines[1]
    ELSE lines[1] \o "\n" \o JoinLines(Tail(lines))

\* a provider's ConvertAlias or GenerateAlias once the response is read:
\* return ExtractAliasDefinition(response), nil
ProviderReturns(op, lines) ==
    /\ steps < MaxOps
    /\ converted' = ExtractAliasDefinition(JoinLines(lines))
    /\ ret' = ""
    /\ providerCalls' = providerCalls + 1
    /\ lastOp' = Op(op, <<lines>>)
    /\ steps' = steps + 1
    /\ UNCHANGED <<Shell, Aliases, aliasFile, storeFile, configFile, exitCode, codec,
                   AIConfigured, aiManager, providerErrors, outputFile>>

ProviderConvertAlias == \E lines \in Responses : ProviderReturns("provider.ConvertAlias", lines)

ProviderGenerateAlias == \E lines \in Responses : ProviderReturns("provider.GenerateAlias", lines)

InitExtract ==
    /\ Shell = ShellBash
    /\ Aliases = EmptyAliases
    /\ aliasFile = NoFile
    /\ storeFile = NoStore
    /\ configFile = SavedConfig(Shell, Configured(NewManager, "ollama"))
    /\ lastOp = Op("init", << >>)
    /\ ret = ""
    /\ exitCode = -1
    /\ steps = 0
    /\ codec = CodecIdle
    /\ AIConfigured = TRUE
    /\ aiManager = Configured(NewManager, "ollama")
    /\ providerCalls = 0
    /\ providerErrors = 0
    /\ converted = ""
    /\ outputFile = NoFile

NextExtract == ProviderConvertAlias \/ ProviderGenerateAlias

SpecExtract == InitExtract /\ [][NextExtract]_vars

\* the response just read has a line that, trimmed, starts with a keyword
HasDefinition(lines) == \E i \in 1..Len(lines) : StartsDefinition(TrimSpace(lines[i]))

\* C25: what is extracted from a response is its first line, in order and
\* trimmed, that starts with 'alias ', 'function ', 'Set-Alias ' or 'doskey ';
\* when no line does it is the whole response, trimmed; no error either way.
C25_FirstDefinitionLine ==
    (lastOp.op \in {"provider.ConvertAlias", "provider.GenerateAlias"})
        => LET lines == lastOp.args[1]
           IN  /\ ret = ""
               /\ HasDefinition(lines)
                    => \E i \in 1..Len(lines) :
                         /\ StartsDefinition(TrimSpace(lines[i]))
                         /\ \A j \in 1..(i - 1) : ~StartsDefinition(TrimSpace(lines[j]))
                         /\ converted = TrimSpace(lines[i])
               /\ ~HasDefinition(lines) => converted = TrimSpace(JoinLines(lines))

\* a response whose second line is its first definition, indented, has been
\* read, and one without any definition
C25_Witness ==
    /\ lastOp.op = "provider.ConvertAlias"
    /\ Len(lastOp.args[1]) = 2
    /\ ~StartsDefinition(TrimSpace(lastOp.args[1][1]))
    /\ StartsDefinition(TrimSpace(lastOp.args[1][2]))
    /\ ~StartsDefinition(lastOp.args[1][2])
    /\ converted = TrimSpace(lastOp.args[1][2])

(***************************************************************************)
(* SpecConfig: the configuration file over a sequence of processes         *)
(***************************************************************************)
\* the order in which LoadConfig looks at the providers of the file
ProviderOrder == <<"ollama", "openai", "anthropic">>

\* the providers LoadConfig configures again: Ollama when the file has its
\* endpoint and model, the two others when it has an API key for them too
Reconfigured(config) ==
    {name \in DOMAIN config.Settings : name = "ollama" \/ config.Settings[name].key # ""}

\* am.aiManager after the ConfigureOllama, ConfigureOpenAI and
\* ConfigureAnthropic calls of LoadConfig
RECURSIVE LoadedManager(_, _, _)
LoadedManager(config, names, manager) ==
    IF names = << >> THEN manager
    ELSE LoadedManager(config, Tail(names),
                       IF Head(names) \in Reconfigured(config)
                       THEN ConfiguredWith(manager, config.Settings[Head(names)])
                       ELSE manager)

\* LoadConfig: am.aiManager when it returns, the default of the file set last
LoadConfigManager(config) ==
    SetDefaultProvider(LoadedManager(config, ProviderOrder, NewManager), config.AIProvider)

\* LoadConfig: the configuration file when it returns. Each Configure call
\* saves, so the file is what the last of them wrote, before the default of
\* the file is set in memory
LoadConfigFile(config) ==
    IF Reconfigured(config) = {} THEN config
    ELSE SavedConfig(config.shell, LoadedManager(config, ProviderOrder, NewManager))

\* the settings a configure command is given
ConfigModels == {"llama2", "gpt-4"}
ConfigProviders ==
    {OllamaProvider(model) : model \in ConfigModels}
    \cup {OpenAIProvider("sk-1", model) : model \in ConfigModels}
    \cup {AnthropicProvider("sk-2", model) : model \in ConfigModels}

\* NewAliasManager in a process that finds a configuration file
StartProcess(next) ==
    /\ steps < MaxOps
    /\ configFile.exists
    /\ Shell' = configFile.shell
    /\ lastOp' = next
    /\ ret' = ""
    /\ exitCode' = 0
    /\ steps' = steps + 1
    /\ providerCalls' = 0
    /\ providerErrors' = 0
    /\ UNCHANGED <<Aliases, aliasFile, storeFile, codec, converted, outputFile>>

\* a process that runs a command other than the configure commands
runProcess ==
    /\ StartProcess(Op("aliasctl", << >>))
    /\ aiManager' = LoadConfigManager(configFile)
    /\ AIConfigured' = (Reconfigured(configFile) # {})
    /\ configFile' = LoadConfigFile(configFile)

\* configure-ollama, configure-openai, configure-anthropic
configureCmd(provider) ==
    /\ StartProcess(Op("aliasctl configure-" \o provider.kind, <<provider>>))
    /\ aiManager' = ConfiguredWith(LoadConfigManager(configFile), provider)
    /\ AIConfigured' = TRUE
    /\ configFile' = SavedConfig(configFile.shell, aiManager')

InitConfig ==
    /\ Shell \in {ShellBash, ShellFish}
    /\ Aliases = EmptyAliases
    /\ aliasFile = NoFile
    /\ storeFile = NoStore
    /\ configFile = SavedConfig(Shell, NewManager)
    /\ lastOp = Op("init", << >>)
    /\ ret = ""
    /\ exitCode = -1
    /\ steps = 0
    /\ codec = CodecIdle
    /\ AIConfigured = FALSE
    /\ aiManager = NewManager
    /\ providerCalls = 0
    /\ providerErrors = 0
    /\ converted = ""
    /\ outputFile = NoFile

NextConfig ==
    \/ runProcess
    \/ \E provider \in ConfigProviders : configureCmd(provider)

SpecConfig == InitConfig /\ [][NextConfig]_vars

\* C27: a process that runs no configure command leaves the default AI
\* provider of the configuration file and the settings of every provider in
\* it as they were, so that over any number of such runs they stay what the
\* last configure command saved.
C27_LoadKeepsConfigFile ==
    [][lastOp'.op = "aliasctl"
         => /\ configFile'.AIProvider = configFile.AIProvider
            /\ configFile'.Settings = configFile.Settings]_vars

(***************************************************************************)
(* SpecManager: the calls of ai.Manager (ai/manager.go)                    *)
(***************************************************************************)
\* the names providers are registered and asked for under, "" for none
ManagerNames == {"ollama", "openai"}

\* the providers handed to AddProvider
ManagerProviders == {OllamaProvider("llama2"), OllamaProvider("mistral"), OpenAIProvider("sk-1", "gpt-4")}

\* a call on am.aiManager that leaves everything else alone
ManagerCall(call, error) ==
    /\ steps < MaxOps
    /\ lastOp' = call
    /\ ret' = error
    /\ steps' = steps + 1
    /\ UNCHANGED <<Shell, Aliases, aliasFile, storeFile, configFile, exitCode, codec,
                   AIConfigured, providerCalls, providerErrors, converted, outputFile>>

ManagerAddProvider(name, provider) ==
    /\ ManagerCall(Op("AddProvider", <<name, provider>>), "")
    /\ aiManager' = AddProvider(aiManager, name, provider)

ManagerSetDefaultProvider(name) ==
    /\ ManagerCall(Op("SetDefaultProvider", <<name>>), SetDefaultProviderError(aiManager, name))
    /\ aiManager' = SetDefaultProvider(aiManager, name)

\* GetProvider: lastOp holds the provider it returned as well
ManagerGetProvider(name) ==
    /\ ManagerCall([op |-> "GetProvider", args |-> <<name>>,
                    provider |-> GetProvider(aiManager, name)],
                   GetProviderError(aiManager, name))
    /\ UNCHANGED aiManager

InitManager ==
    /\ Shell = ShellBash
    /\ Aliases = EmptyAliases
    /\ aliasFile = NoFile
    /\ storeFile = NoStore
    /\ configFile = SavedConfig(Shell, NewManager)
    /\ lastOp = Op("init", << >>)
    /\ ret = ""
    /\ exitCode = -1
    /\ steps = 0
    /\ codec = CodecIdle
    /\ AIConfigured = FALSE
    /\ aiManager = NewManager
    /\ providerCalls = 0
    /\ providerErrors = 0
    /\ converted = ""
    /\ outputFile = NoFile

NextManager ==
    \/ \E name \in ManagerNames, provider \in ManagerProviders : ManagerAddProvider(name, provider)
    \/ \E name \in ManagerNames : ManagerSetDefaultProvider(name)
    \/ \E name \in ManagerNames \cup {""} : ManagerGetProvider(name)

SpecManager == InitManager /\ [][NextManager]_vars

\* the providers registered under some name
Registered(manager) == {manager.Providers[name] : name \in DOMAIN manager.Providers}

\* C30: after every call the default is unset or a provider registered
\* under some name; SetDefaultProvider with a name that is not registered
\* returns an error and leaves the default as it was; GetProvider("")
\* returns the default, or an error when there is none.
C30_DefaultIsRegistered ==
    [][/\ aiManager'.Default = NoProvider \/ aiManager'.Default \in Registered(aiManager')
       /\ (lastOp'.op = "SetDefaultProvider" /\ lastOp'.args[1] \notin DOMAIN aiManager.Providers)
            => (ret' # "" /\ aiManager'.Default = aiManager.Default)
       /\ (lastOp'.op = "GetProvider" /\ lastOp'.args[1] = "")
            => IF aiManager.Default = NoProvider THEN ret' # ""
               ELSE ret' = "" /\ lastOp'.provider = aiManager.Default]_vars

(***************************************************************************)
(* SpecCli: one process per command (cmd/aliasctl)                         *)
(***************************************************************************)
\* PersistentPreRunE: the error it returns for a command that loads the store
PersistentPreRunE(verbose, store) ==
    IF LoadError(store) # "" /\ verbose
    THEN "error loading aliases: " \o LoadError(store)
    ELSE ""

\* main: the exit status for what Execute returned
ExitStatus(err) == IF err # "" THEN 1 ELSE 0

\* initAliasManager: a new manager has the shell of the configuration file
\* and an empty map (the runs considered start with a configuration file; a
\* run without one detects the shell from the environment and writes it)
NewAliasManager(next) ==
    /\ steps < MaxOps
    /\ configFile.exists
    /\ Shell' = configFile.shell
    /\ steps' = steps + 1
    /\ lastOp' = next
    /\ UNCHANGED <<configFile, codec, AIConfigured, aiManager>>

addCmd(verbose, name, command) ==
    /\ NewAliasManager(Op("aliasctl add", <<name, command>>))
    /\ LET pre == PersistentPreRunE(verbose, storeFile)
           loaded == LoadedAliases(EmptyAliases, storeFile)
       IN  IF pre # ""
           THEN /\ Aliases' = loaded
                /\ ret' = pre
                /\ UNCHANGED storeFile
           ELSE /\ Aliases' = AddAliasTo(loaded, Shell', name, command)
                /\ storeFile' = SavedStore(Aliases')
                /\ ret' = ""
    /\ exitCode' = ExitStatus(ret')
    /\ providerCalls' = 0
    /\ providerErrors' = 0
    /\ UNCHANGED <<aliasFile, converted, outputFile>>

removeCmd(verbose, name) ==
    /\ NewAliasManager(Op("aliasctl remove", <<name>>))
    /\ LET pre == PersistentPreRunE(verbose, storeFile)
           loaded == LoadedAliases(EmptyAliases, storeFile)
       IN  IF pre # ""
           THEN /\ Aliases' = loaded
                /\ ret' = pre
                /\ UNCHANGED storeFile
           ELSE /\ Aliases' = RemoveAliasFrom(loaded, name)
                /\ IF RemoveReturns(loaded, name) = "true"
                   THEN /\ storeFile' = SavedStore(Aliases')
                        /\ ret' = ""
                   ELSE /\ ret' = "alias '" \o name \o "' not found. Run 'aliasctl list' to see all available aliases"
                        /\ UNCHANGED storeFile
    /\ exitCode' = ExitStatus(ret')
    /\ providerCalls' = 0
    /\ providerErrors' = 0
    /\ UNCHANGED <<aliasFile, converted, outputFile>>

importCmd(verbose) ==
    /\ NewAliasManager(Op("aliasctl import", << >>))
    /\ LET pre == PersistentPreRunE(verbose, storeFile)
           loaded == LoadedAliases(EmptyAliases, storeFile)
       IN  IF pre # ""
           THEN /\ Aliases' = loaded
                /\ ret' = pre
                /\ UNCHANGED storeFile
           ELSE IF ~aliasFile.exists
           THEN /\ Aliases' = loaded
                /\ ret' = "shell configuration file not found"
                /\ UNCHANGED storeFile
           ELSE /\ Aliases' = ImportedAliases(aliasFile, loaded, Shell')
                /\ storeFile' = SavedStore(Aliases')
                /\ ret' = ""
    /\ exitCode' = ExitStatus(ret')
    /\ providerCalls' = 0
    /\ providerErrors' = 0
    /\ UNCHANGED <<aliasFile, converted, outputFile>>

listCmd(verbose) ==
    /\ NewAliasManager(Op("aliasctl list", << >>))
    /\ Aliases' = LoadedAliases(EmptyAliases, storeFile)
    /\ ret' = PersistentPreRunE(verbose, storeFile)
    /\ exitCode' = ExitStatus(ret')
    /\ providerCalls' = 0
    /\ providerErrors' = 0
    /\ UNCHANGED <<aliasFile, storeFile, converted, outputFile>>

\* set-shell skips the load of PersistentPreRunE
setShellCmd(shell) ==
    /\ steps < MaxOps
    /\ configFile.exists
    /\ IF shell \in Shells
       THEN /\ Shell' = shell
            /\ configFile' = SavedConfig(shell, aiManager)
            /\ ret' = ""
       ELSE /\ Shell' = configFile.shell
            /\ ret' = "failed to set shell type to '" \o shell \o "': " \o UnsupportedShell(shell)
            /\ UNCHANGED configFile
    /\ Aliases' = EmptyAliases
    /\ exitCode' = ExitStatus(ret')
    /\ lastOp' = Op("aliasctl set-shell", <<shell>>)
    /\ steps' = steps + 1
    /\ providerCalls' = 0
    /\ providerErrors' = 0
    /\ UNCHANGED <<aliasFile, storeFile, codec, AIConfigured, aiManager, converted, outputFile>>

\* the generic attempt parseAliasDefinition ends with
ParseFallback(definition) ==
    IF Contains(definition, "=")
    THEN LET parts == SplitN2(definition, "=")
         IN  <<TrimSpace(parts[1]), TrimSpace(parts[2])>>
    ELSE <<"", "">>

\* parseAliasDefinition (util.go): <<name, command>>
parseAliasDefinition(text, shellType) ==
    LET definition == TrimSpace(text)
        posix == SplitN2(TrimPrefix(definition, "alias "), "=")
        setAlias == Fields(TrimPrefix(definition, "Set-Alias "))
        function == SplitN2(TrimPrefix(definition, "function "), " {")
        doskey == SplitN2(TrimPrefix(definition, "doskey "), "=")
    IN  IF /\ shellType \in {"bash", "zsh", "fish", "ksh"}
           /\ HasPrefix(definition, "alias ")
           /\ Len(posix) = 2
        THEN <<TrimSpace(posix[1]), Trim(TrimSpace(posix[2]), {"'", "\""})>>
        ELSE IF /\ shellType \in {"powershell", "pwsh"}
                /\ HasPrefix(definition, "Set-Alias ")
                /\ Len(setAlias) >= 2
        THEN <<setAlias[1], setAlias[2]>>
        ELSE IF /\ shellType \in {"powershell", "pwsh"}
                /\ ~HasPrefix(definition, "Set-Alias ")
                /\ HasPrefix(definition, "function ")
                /\ Len(function) = 2
        THEN <<TrimSpace(function[1]), TrimSpace(TrimSuffix(function[2], "}"))>>
        ELSE IF /\ shellType = "cmd"
                /\ HasPrefix(definition, "doskey ")
                /\ Len(doskey) = 2
        THEN <<TrimSpace(doskey[1]), TrimSpace(doskey[2])>>
        ELSE ParseFallback(definition)

\* the answers that save, at "Save this alias? [Y/n]"
SaveAccepted == {"", "y", "yes"}

\* generate: the provider's suggestion, the answers typed at the two
\* prompts (in lower case) and at "Enter custom alias name"
generateCmd(verbose, reply, nameResponse, customName, saveResponse) ==
    /\ NewAliasManager(Op("aliasctl generate", <<nameResponse, customName, saveResponse>>))
    /\ LET pre == PersistentPreRunE(verbose, storeFile)
           loaded == LoadedAliases(EmptyAliases, storeFile)
           answer == ManagerAnswer(aiManager, "", reply)
           parsed == parseAliasDefinition(answer.text, Shell')
           aliasName == IF TrimSpace(nameResponse) \in {"", "y", "yes"} THEN parsed[1]
                        ELSE IF TrimSpace(nameResponse) \notin {"n", "no"} THEN TrimSpace(nameResponse)
                        ELSE TrimSpace(customName)
           saved == AddAliasTo(loaded, Shell', aliasName, parsed[2])
           called == IF pre = "" /\ AIConfigured THEN ManagerCalls(aiManager, "") ELSE 0
       IN  /\ providerCalls' = called
           /\ providerErrors' = (IF called = 1 /\ reply.err # "" THEN 1 ELSE 0)
           /\ IF pre # ""
              THEN /\ Aliases' = loaded
                   /\ ret' = pre
                   /\ UNCHANGED storeFile
              ELSE IF ~AIConfigured
              THEN /\ Aliases' = loaded
                   /\ ret' = "AI provider not configured"
                   /\ UNCHANGED storeFile
              ELSE IF answer.err # ""
              THEN /\ Aliases' = loaded
                   /\ ret' = "failed to generate alias: " \o answer.err
                   /\ UNCHANGED storeFile
              ELSE IF parsed[1] = "" \/ parsed[2] = ""
              THEN /\ Aliases' = loaded
                   /\ ret' = "failed to parse the generated alias definition: " \o answer.text
                   /\ UNCHANGED storeFile
              ELSE IF aliasName = ""
              THEN /\ Aliases' = loaded
                   /\ ret' = "alias name cannot be empty"
                   /\ UNCHANGED storeFile
              ELSE IF saveResponse \in SaveAccepted
              THEN /\ Aliases' = saved
                   /\ storeFile' = SavedStore(saved)
                   /\ ret' = ""
              ELSE /\ Aliases' = loaded
                   /\ ret' = ""
                   /\ UNCHANGED storeFile
    /\ exitCode' = ExitStatus(ret')
    /\ UNCHANGED <<aliasFile, converted, outputFile>>

CliCommands == {"ls -la"}
CliShellArgs == {ShellFish, "tcsh"}

\* what the provider suggests, and what the user types at the prompts
GenerateReplies == {ProviderFailure, Answer("alias gs='git status'"), Answer("no idea")}
NameResponses == {"", "n"}
CustomNames == {"", "gs"}
SaveResponses == {"", "n"}

\* stores a process may find: none, one that cannot be parsed, one record
InitStores == {
    NoStore,
    CorruptStore,
    StoreOf(AddAliasTo(EmptyAliases, ShellBash, "ll", "ls")) }

\* the shells the configuration file names at the start
CliShells == {ShellBash, ShellPowerShell}

InitCli ==
    /\ Shell \in CliShells
    /\ Aliases = EmptyAliases
    /\ aliasFile \in {NoFile, File("alias gs='git status'\n")}
    /\ storeFile \in InitStores
    /\ lastOp = Op("init", << >>)
    /\ ret = ""
    /\ exitCode = -1
    /\ steps = 0
    /\ codec = CodecIdle
    /\ aiManager \in {NewManager, Configured(NewManager, "ollama")}
    /\ AIConfigured = (DOMAIN aiManager.Providers # {})
    /\ configFile = SavedConfig(Shell, aiManager)
    /\ providerCalls = 0
    /\ providerErrors = 0
    /\ converted = ""
    /\ outputFile = NoFile

NextCli ==
    \/ \E verbose \in BOOLEAN, reply \in GenerateReplies, nameResponse \in NameResponses,
          customName \in CustomNames, saveResponse \in SaveResponses :
          generateCmd(verbose, reply, nameResponse, customName, saveResponse)
    \/ \E verbose \in BOOLEAN, name \in Names, command \in CliCommands : addCmd(verbose, name, command)
    \/ \E verbose \in BOOLEAN, name \in Names : removeCmd(verbose, name)
    \/ \E verbose \in BOOLEAN : importCmd(verbose)
    \/ \E verbose \in BOOLEAN : listCmd(verbose)
    \/ \E shell \in CliShellArgs : setShellCmd(shell)

SpecCli == InitCli /\ [][NextCli]_vars

\* the commands that load the store before they run
LoadingCommands == {"aliasctl add", "aliasctl remove", "aliasctl import", "aliasctl list"}

\* C10: a command that finds a store it cannot load ends with an error and a
\* non-zero exit status and leaves the store file as it was.
C10_LoadFailureStopsCommand ==
    [][(lastOp'.op \in LoadingCommands /\ LoadError(storeFile) # "")
         => /\ ret' # ""
            /\ exitCode' # 0
            /\ storeFile' = storeFile]_vars

\* the commands that change the store, and the one of them the last run
\* performed: add, import, a remove that found the name, a generate whose
\* suggestion was accepted
Mutated(op, before, result) ==
    \/ op.op \in {"aliasctl add", "aliasctl import"}
    \/ op.op = "aliasctl remove" /\ op.args[1] \in DOMAIN before
    \/ op.op = "aliasctl generate" /\ op.args[3] \in SaveAccepted /\ result # before

\* what LoadAliases finds in the store file, read into an empty map
Persisted(store) == LoadedAliases(EmptyAliases, store)

\* C12: when a command that changes the store ends with exit status 0, the
\* store file can be loaded and holds exactly the records the process held
\* in memory.
C12_SuccessMeansPersisted ==
    [][(Mutated(lastOp', Persisted(storeFile), Aliases') /\ exitCode' = 0)
         => /\ LoadError(storeFile') = ""
            /\ storeFile'.kind = "ok"
            /\ Persisted(storeFile') = Aliases']_vars

\* an accepted suggestion has been added to a store of one record and saved
C12_Witness ==
    /\ lastOp.op = "aliasctl generate"
    /\ lastOp.args[3] \in SaveAccepted
    /\ exitCode = 0
    /\ Cardinality(DOMAIN Aliases) = 2
    /\ Persisted(storeFile) = Aliases

(***************************************************************************)
(* SpecCodec: render one alias, then parse what was rendered               *)
(***************************************************************************)
CodecNames == {"ll", "gs"}
CodecCommands == {"ls", "ls -la", "git status", "endless -v"}

InitCodec ==
    /\ Shell = ShellBash
    /\ Aliases = EmptyAliases
    /\ aliasFile = NoFile
    /\ storeFile = NoStore
    /\ configFile = SavedConfig(Shell, NewManager)
    /\ lastOp = Op("init", << >>)
    /\ ret = ""
    /\ exitCode = -1
    /\ steps = 0
    /\ AIConfigured = FALSE
    /\ aiManager = NewManager
    /\ providerCalls = 0
    /\ providerErrors = 0
    /\ converted = ""
    /\ outputFile = NoFile
    /\ \E shell \in Shells, name \in CodecNames, command \in CodecCommands :
          codec = [phase |-> "input", shell |-> shell, name |-> name, command |-> command,
                   text |-> "", out |-> EmptyAliases]

\* what ApplyAliases writes into a new file for a store of one alias
CodecRender ==
    /\ codec.phase = "input"
    /\ codec' = [codec EXCEPT
          !.phase = "rendered",
          !.text = NewContent(NoFile,
                              AddAliasTo(EmptyAliases, codec.shell, codec.name, codec.command),
                              codec.shell, <<codec.name>>)]
    /\ UNCHANGED <<Shell, Aliases, aliasFile, storeFile, configFile, lastOp, ret, exitCode, steps, aiVars>>

\* what ImportAliasesFromShell reads from that file into an empty map
CodecParse ==
    /\ codec.phase = "rendered"
    /\ codec' = [codec EXCEPT
          !.phase = "parsed",
          !.out = ImportedAliases(File(codec.text), EmptyAliases, codec.shell)]
    /\ UNCHANGED <<Shell, Aliases, aliasFile, storeFile, configFile, lastOp, ret, exitCode, steps, aiVars>>

\* what parseAliasDefinition makes of the definition ApplyAliases renders
\* for that alias
CodecDefinition ==
    /\ codec.phase = "parsed"
    /\ codec' = [phase |-> "defined", shell |-> codec.shell, name |-> codec.name,
                 command |-> codec.command, text |-> codec.text, out |-> codec.out,
                 definition |-> RenderAlias(codec.shell, codec.name, codec.command),
                 parsed |-> parseAliasDefinition(
                                RenderAlias(codec.shell, codec.name, codec.command),
                                codec.shell)]
    /\ UNCHANGED <<Shell, Aliases, aliasFile, storeFile, configFile, lastOp, ret, exitCode, steps, aiVars>>

NextCodec == CodecRender \/ CodecParse \/ CodecDefinition

SpecCodec == InitCodec /\ [][NextCodec]_vars

\* C4: parsing the text rendered for (name, command) yields the record of
\* name with command for the shell, and nothing else.
C4_RoundTrip ==
    (codec.phase = "parsed")
        => codec.out = AddAliasTo(EmptyAliases, codec.shell, codec.name, codec.command)

\* C29: for the definition ApplyAliases renders for an alias of the active
\* shell, parseAliasDefinition returns the name and the command that
\* ImportAliasesFromShell stores when it reads that definition.
C29_ParsersAgree ==
    (codec.phase = "defined")
        => \A name \in DOMAIN codec.out :
             codec.parsed = <<name, CommandFor(codec.out[name], codec.shell)>>
====
